---- MODULE Spec2Model ----
(***************************************************************************)
(* Dangbei2Api (src/app.py): an OpenAI-style chat-completion gateway.      *)
(*                                                                         *)
(* Strings are modelled as texts: finite sequences of tokens.  A token is  *)
(* a piece of text the code never looks inside ("a", "<details>", the      *)
(* text of a JSON document).  Concatenation is \o, the empty string <<>>.  *)
(***************************************************************************)
EXTENDS Integers, Sequences, FiniteSets, TLC

(***************************************************************************)
(* Bounds of the model.                                                    *)
(***************************************************************************)
\* upstream lines read by one request
MaxLines == 3
\* messages of one request handed to truncate_messages
MaxMsgs == 3
\* characters of one message's content
MaxContent == 2
\* largest character budget tried for truncate_messages
MaxBudget == 4
\* requests handled concurrently
MaxClients == 2
\* requests received in all
MaxRequests == 3
\* device identifiers generate_device_id can give
MaxDevices == 3
\* an example of a fixed size for the user-agent cache
CacheBound == 2

(***************************************************************************)
(* JSON values, as json.loads returns them.                                *)
(***************************************************************************)
JNull == [t |-> "null"]
JNum(n) == [t |-> "num", n |-> n]
JStr(s) == [t |-> "str", s |-> s]
JArr(xs) == [t |-> "arr", items |-> xs]
JObj(f) == [t |-> "obj", f |-> f]
\* what json.loads raises on text that is not a JSON document
JSONDecodeError == [t |-> "JSONDecodeError"]

\* Python truth value of a JSON value (`x or ""`, `if x:`)
Truthy(v) ==
    CASE v.t = "null" -> FALSE
      [] v.t = "num" -> v.n # 0
      [] v.t = "str" -> v.s # <<>>
      [] v.t = "arr" -> v.items # <<>>
      [] v.t = "obj" -> DOMAIN v.f # {}
      [] OTHER -> FALSE

\* d.get(key, default) on a dict d
Get(d, key, default) == IF key \in DOMAIN d.f THEN d.f[key] ELSE default

\* str(v) of an f-string field, for the values the table rows carry
Fmt(v) == IF v.t = "str" THEN v.s ELSE <<v.t>>

(***************************************************************************)
(* The JSON documents the upstream can send.  Every document is one token  *)
(* of text; Documents gives the value json.loads returns for it.           *)
(***************************************************************************)
Source1 ==
    JObj([idIndex |-> JStr(<<"1">>), name |-> JStr(<<"n">>),
          url |-> JStr(<<"u">>), siteName |-> JStr(<<"s">>)])

Card(items) ==
    JObj([cardType |-> JStr(<<"DB-CARD-2">>),
          cardInfo |-> JObj([cardItems |-> items])])

Item(content) == JObj([type |-> JStr(<<"2002">>), content |-> content])

Event(content_type, content) ==
    JObj([content_type |-> JStr(<<content_type>>), content |-> content])

Documents ==
    [ \* documents carried in a card item's content
      SRC_ROWS      |-> JArr(<<Source1>>),
      SRC_NONE      |-> JArr(<<>>),
      \* card documents (the content of a card event)
      CARD_ROWS     |-> Card(JArr(<<Item(JStr(<<"SRC_ROWS">>))>>)),
      CARD_NOROWS   |-> Card(JArr(<<Item(JStr(<<"SRC_NONE">>))>>)),
      CARD_BADSRC   |-> Card(JArr(<<Item(JStr(<<"oops">>))>>)),
      CARD_NUMSRC   |-> Card(JArr(<<Item(JNum(5))>>)),
      CARD_NUMITEMS |-> Card(JNum(5)),
      CARD_BADINFO  |-> JObj([cardType |-> JStr(<<"DB-CARD-2">>), cardInfo |-> JArr(<<>>)]),
      CARD_NOINFO   |-> JObj([cardType |-> JStr(<<"DB-CARD-2">>)]),
      CARD_OTHER    |-> JObj([cardType |-> JStr(<<"DB-CARD-1">>)]),
      CARD_ARRAY    |-> JArr(<<>>),
      CARD_NULL     |-> JNull,
      \* event documents (the text after "data:")
      EV_THINK      |-> Event("thinking", JStr(<<"a">>)),
      EV_TEXT       |-> Event("text", JStr(<<"b">>)),
      EV_EMPTY      |-> Event("text", JStr(<<>>)),
      EV_ABSENT     |-> JObj([content_type |-> JStr(<<"thinking">>)]),
      EV_OTHER      |-> Event("image", JStr(<<"c">>)),
      EV_DETAILS    |-> Event("text", JStr(<<"<details>", "x", "</details>">>)),
      EV_NUMBER     |-> Event("text", JNum(5)),
      EV_ARRAY      |-> JArr(<<JNum(1)>>),
      EV_NULL       |-> JNull,
      EV_C_ROWS     |-> Event("card", JStr(<<"CARD_ROWS">>)),
      EV_C_NOROWS   |-> Event("card", JStr(<<"CARD_NOROWS">>)),
      EV_C_OTHER    |-> Event("card", JStr(<<"<details>", "x", "</details>", "CARD_OTHER">>)),
      EV_C_TEXT     |-> Event("card", JStr(<<"oops">>)),
      EV_C_ARRAY    |-> Event("card", JStr(<<"CARD_ARRAY">>)),
      EV_C_BADINFO  |-> Event("card", JStr(<<"CARD_BADINFO">>)) ]

\* json.loads(s): the document's value, or JSONDecodeError for any other text
Lookup(docs, s) ==
    IF Len(s) = 1 /\ s[1] \in DOMAIN docs THEN docs[s[1]] ELSE JSONDecodeError

json_loads(s) == Lookup(Documents, s)

(***************************************************************************)
(* re.sub(r"<details>.*?</details>", "", content, flags=re.DOTALL):        *)
(* leftmost, non-greedy, repeated.                                         *)
(***************************************************************************)
RECURSIVE strip_details(_)
strip_details(s) ==
    IF s = <<>> THEN <<>>
    ELSE IF Head(s) = "<details>" /\ \E j \in 2..Len(s) : s[j] = "</details>"
         THEN LET j == CHOOSE i \in 2..Len(s) :
                           /\ s[i] = "</details>"
                           /\ \A k \in 2..(i - 1) : s[k] # "</details>"
              IN  strip_details(SubSeq(s, j + 1, Len(s)))
         ELSE <<Head(s)>> \o strip_details(Tail(s))

(***************************************************************************)
(* parse_card_content.  The result is [raised, value]: raised is "" and    *)
(* value the returned string, or raised names the exception that leaves    *)
(* the function (only json.JSONDecodeError is caught).                     *)
(***************************************************************************)
\* "无法解析的新闻内容" (news content that cannot be parsed)
FallbackNews == <<"[unparseable news content]">>
\* "不支持的 card 类型" (unsupported card type)
FallbackType == <<"[unsupported card type]">>
\* "\n\n| 序号 | 网站URL | 来源 |\n| ---- | ---- | ---- |"
TableHeader == <<"\n\n", "| no | url | site |", "\n", "| ---- | ---- | ---- |">>

Returned(value) == [raised |-> "", value |-> value]
Raised(exc) == [raised |-> exc, value |-> <<>>]

\* the keys of a dict, as the strings a `for` loop over the dict draws
RECURSIVE Keys(_)
Keys(S) ==
    IF S = {} THEN <<>>
    ELSE LET k == CHOOSE k \in S : TRUE IN <<JStr(<<k>>)>> \o Keys(S \ {k})

\* the items a Python `for` loop draws from v: [raised, items]
Iterate(v) ==
    CASE v.t = "arr" -> [raised |-> "", items |-> v.items]
      [] v.t = "str" -> [raised |-> "", items |-> [i \in 1..Len(v.s) |-> JStr(<<v.s[i]>>)]]
      [] v.t = "obj" -> [raised |-> "", items |-> Keys(DOMAIN v.f)]
      [] OTHER -> [raised |-> "TypeError", items |-> <<>>]

NoRows == [raised |-> "", rows |-> <<>>]
RowsRaised(exc) == [raised |-> exc, rows |-> <<>>]

\* the rows of a first part and of the rest, unless one of them raised
Rows(first, rest) ==
    IF first.raised # "" THEN first
    ELSE IF rest.raised # "" THEN rest
    ELSE [raised |-> "", rows |-> first.rows \o rest.rows]

\* lines 255-260: the table row of one source; a source that is no dict raises
source_row(source) ==
    IF source.t # "obj" THEN RowsRaised("AttributeError")
    ELSE [raised |-> "",
          rows |-> << <<"| ">> \o Fmt(Get(source, "idIndex", JStr(<<>>)))
                      \o <<" | [">> \o Fmt(Get(source, "name", JStr(<<>>)))
                      \o <<"](">> \o Fmt(Get(source, "url", JStr(<<>>)))
                      \o <<") | ">> \o Fmt(Get(source, "siteName", JStr(<<>>)))
                      \o <<" |">> >>]

\* lines 254-260: `for source in sources`
RECURSIVE source_rows(_)
source_rows(sources) ==
    IF sources = <<>> THEN NoRows
    ELSE Rows(source_row(Head(sources)), source_rows(Tail(sources)))

\* line 254 on what line 253 loaded
loaded_rows(it) == IF it.raised # "" THEN RowsRaised(it.raised) ELSE source_rows(it.items)

sources_rows(sources) ==
    IF sources = JSONDecodeError THEN RowsRaised("JSONDecodeError")
    ELSE loaded_rows(Iterate(sources))

\* line 253: json.loads(item.get("content", "[]")) takes a string only
content_rows(content) ==
    IF content.t # "str" THEN RowsRaised("TypeError")
    ELSE sources_rows(json_loads(content.s))

\* lines 252-260: the rows of one item; only items of type "2002" have any
item_row(item) ==
    IF item.t # "obj" THEN RowsRaised("AttributeError")
    ELSE IF Get(item, "type", JNull) # JStr(<<"2002">>) THEN NoRows
    ELSE content_rows(Get(item, "content", JStr(<<"SRC_NONE">>)))

\* lines 251-260: `for item in card_info.get("cardItems", [])`
RECURSIVE item_rows(_)
item_rows(items) ==
    IF items = <<>> THEN NoRows
    ELSE Rows(item_row(Head(items)), item_rows(Tail(items)))

\* "\n".join(references)
RECURSIVE join_rows(_)
join_rows(rows) ==
    IF rows = <<>> THEN <<>>
    ELSE IF Len(rows) = 1 THEN rows[1]
    ELSE rows[1] \o <<"\n">> \o join_rows(Tail(rows))

\* lines 261-264 and the except clause of lines 266-268
card_references(references) ==
    IF references.raised = "JSONDecodeError" THEN Returned(FallbackNews)
    ELSE IF references.raised # "" THEN Raised(references.raised)
    ELSE IF references.rows # <<>>
         THEN Returned(TableHeader \o <<"\n">> \o join_rows(references.rows))
    ELSE Returned(FallbackNews)

\* line 251: the loop over cardItems
card_items(it) ==
    IF it.raised # "" THEN Raised(it.raised) ELSE card_references(item_rows(it.items))

\* lines 249-251
card_info_items(card_info) ==
    IF card_info.t # "obj" THEN Raised("AttributeError")
    ELSE card_items(Iterate(Get(card_info, "cardItems", JArr(<<>>))))

\* lines 248-268 on what line 247 loaded
card_data_content(card_data) ==
    IF card_data = JSONDecodeError THEN Returned(FallbackNews)
    ELSE IF card_data.t # "obj" THEN Raised("AttributeError")
    ELSE IF Get(card_data, "cardType", JNull) # JStr(<<"DB-CARD-2">>)
         THEN Returned(FallbackType)
    ELSE card_info_items(Get(card_data, "cardInfo", JObj(<<>>)))

parse_card_content(content) == card_data_content(json_loads(content))

(***************************************************************************)
(* The model catalog (lines 72-115).                                       *)
(***************************************************************************)
supported_models ==
    << "deepseek-r1", "deepseek-r1-search",
       "deepseek-v3", "deepseek-v3-search",
       "doubao", "doubao-search",
       "doubao-thinking", "doubao-thinking-search",
       "qwen-plus", "qwen-plus-search",
       "qwq-plus", "qwq-plus-search",
       "qwen-long", "qwen-long-search",
       "moonshot-v1-32k", "moonshot-v1-32k-search",
       "ernie-4.5-turbo-32k", "ernie-4.5-turbo-32k-search" >>

Entry(model, user_action) == [model |-> model, user_action |-> user_action]

model_to_user_action ==
    ("deepseek-r1" :> Entry("deepseek", <<"deep">>)) @@
    ("deepseek-r1-search" :> Entry("deepseek", <<"deep", "online">>)) @@
    ("deepseek-v3" :> Entry("deepseek", <<>>)) @@
    ("deepseek-v3-search" :> Entry("deepseek", <<"online">>)) @@
    ("doubao" :> Entry("doubao", <<>>)) @@
    ("doubao-search" :> Entry("doubao", <<"online">>)) @@
    ("doubao-thinking" :> Entry("doubao-thinking", <<"deep">>)) @@
    ("doubao-thinking-search" :> Entry("doubao-thinking", <<"deep", "online">>)) @@
    ("qwen" :> Entry("qwen", <<>>)) @@
    ("qwen-search" :> Entry("qwen", <<"online">>)) @@
    ("qwen-plus" :> Entry("qwen-plus", <<>>)) @@
    ("qwen-plus-search" :> Entry("qwen-plus", <<"online">>)) @@
    ("qwq-plus" :> Entry("qwq-plus", <<"deep">>)) @@
    ("qwq-plus-search" :> Entry("qwq-plus", <<"deep", "search">>)) @@
    ("qwen-long" :> Entry("qwen-long", <<>>)) @@
    ("qwen-long-search" :> Entry("qwen-long", <<"online">>)) @@
    ("moonshot-v1-32k" :> Entry("moonshot", <<>>)) @@
    ("moonshot-v1-32k-search" :> Entry("moonshot", <<"online">>)) @@
    ("ernie-4.5-turbo-32k" :> Entry("ernie-4.5-turbo", <<>>)) @@
    ("ernie-4.5-turbo-32k-search" :> Entry("ernie-4.5-turbo", <<"online">>))

\* x in a Python list
InList(x, list) == \E i \in 1..Len(list) : list[i] = x

\* line 416: the model an unsupported request falls back to
default_model == "deepseek-v3"

\* lines 415-416: request.model after chat_completions has normalised it
normalize_model(requested_model) ==
    IF ~InList(requested_model, supported_models) THEN default_model ELSE requested_model

\* is_r1_model keyed on the "deep" flag of the catalog entry instead
is_r1_model_deep(m) ==
    m \in DOMAIN model_to_user_action /\ InList("deep", model_to_user_action[m].user_action)

\* lines 357 and 430: is_r1_model
is_r1_model(m) == InList(m, <<"deepseek-r1", "deepseek-r1-search">>)

(***************************************************************************)
(* Chunks and responses.                                                   *)
(***************************************************************************)
\* the delta dicts the code passes: {"role": "assistant"}, {"content": c}, {}
DeltaRole == [role |-> "assistant", has_content |-> FALSE, content |-> <<>>]
DeltaContent(c) == [role |-> "", has_content |-> TRUE, content |-> c]
DeltaEmpty == [role |-> "", has_content |-> FALSE, content |-> <<>>]

\* lines 223-231 (id and created are the same in every chunk of a response)
generate_chunk(m, delta, finish_reason) ==
    [object |-> "chat.completion.chunk", model |-> m, delta |-> delta,
     finish_reason |-> finish_reason]

\* "".join(content_parts)
RECURSIVE join(_)
join(parts) == IF parts = <<>> THEN <<>> ELSE Head(parts) \o join(Tail(parts))

\* card_content = None
None == <<"<None>">>
\* `if card_content:` on None or a string
TruthyText(c) == c # None /\ c # <<>>

\* the HTTP response of the non-streaming request: none yet,
\* lines 475-484 (a chat.completion body), or an error status without one
NoResponse == [status |-> 0, object |-> "", model |-> "", content |-> <<>>, finish_reason |-> ""]
ErrorResponse(status) ==
    [status |-> status, object |-> "", model |-> "", content |-> <<>>, finish_reason |-> ""]
response_data(m, content) ==
    [status |-> 200, object |-> "chat.completion", model |-> m, content |-> content,
     finish_reason |-> "stop"]

\* line 362: f"错误：无法获取响应，状态码: {response.status_code}"
error_msg(status_code) == <<"error: no response, status code: ", ToString(status_code)>>

(***************************************************************************)
(* The upstream.                                                           *)
(***************************************************************************)
\* status codes of an upstream call
StatusCodes == {200, 503}

\* the lines an upstream response can carry
Lines ==
    {<<>>, <<"data:", "oops">>}
    \cup {<<"data:", d>> : d \in
            {"EV_THINK", "EV_TEXT", "EV_EMPTY", "EV_ABSENT", "EV_OTHER", "EV_DETAILS",
             "EV_NUMBER", "EV_ARRAY", "EV_NULL", "EV_C_ROWS", "EV_C_NOROWS",
             "EV_C_OTHER", "EV_C_TEXT", "EV_C_ARRAY", "EV_C_BADINFO"}}

\* no line read yet
NoLine == <<"<no line>">>

\* the model strings a request can carry
Requests == DOMAIN model_to_user_action \cup {"gpt-9"}

\* line.startswith("data:")
startswith_data(l) == l # <<>> /\ Head(l) = "data:"

(***************************************************************************)
(* create_conversation (lines 147-188): "ok" with a conversation id,       *)
(* "HTTPException" (status 500), or "KeyError" when the model has no       *)
(* entry in model_to_user_action.                                          *)
(***************************************************************************)
\* create_conversation taking any answer of the upstream for a conversation
create_conversation_unchecked(model_name, status_code, success) ==
    IF model_name \notin DOMAIN model_to_user_action THEN "KeyError" ELSE "ok"

create_conversation(model_name, status_code, success) ==
    IF model_name \notin DOMAIN model_to_user_action THEN "KeyError"
    ELSE IF status_code # 200 THEN "HTTPException"
    ELSE IF success THEN "ok"
    ELSE "HTTPException"

(***************************************************************************)
(* One pass of the loop body of stream_response (lines 367-398) on one     *)
(* line.  loc holds the locals thinking, content_parts, card_content; the  *)
(* result adds the chunks yielded and the exception that leaves the loop.  *)
(***************************************************************************)
Step(loc, parts, yielded) ==
    [thinking |-> loc.thinking, content_parts |-> loc.content_parts \o parts,
     card_content |-> loc.card_content, yielded |-> yielded, raised |-> ""]

\* the chunks that carry the given fragments
content_chunks(m, parts) ==
    [i \in 1..Len(parts) |-> generate_chunk(m, DeltaContent(parts[i]), "None")]

\* lines 389-395
stream_response_card(m, loc, parsed_content) ==
    IF parsed_content.raised # "" THEN [Step(loc, <<>>, <<>>) EXCEPT !.raised = parsed_content.raised]
    ELSE IF is_r1_model(m)
         THEN [Step(loc, <<>>, <<>>) EXCEPT !.card_content = parsed_content.value]
         ELSE Step(loc, <<parsed_content.value \o <<"\n\n">>>>,
                   <<generate_chunk(m, DeltaContent(parsed_content.value \o <<"\n\n">>), "None")>>)

\* thinking_parts with the marker emitted on every thinking event
thinking_parts_always(loc, content) == <<<<"<think>">>, content>>

\* lines 375-380 and 382-387: the fragments of a thinking or text event
thinking_parts(loc, content) ==
    (IF ~loc.thinking THEN <<<<"<think>">>>> ELSE <<>>) \o <<content>>
text_parts(loc, content) ==
    (IF loc.thinking THEN <<<<"</think>">>>> ELSE <<>>) \o <<content>>

\* stream_response_event with an event of any other type ending the think span
stream_response_event_closing(m, loc, content_type, content) ==
    CASE content_type = JStr(<<"thinking">>) ->
           [Step(loc, thinking_parts(loc, content),
                 content_chunks(m, thinking_parts(loc, content)))
               EXCEPT !.thinking = TRUE]
      [] content_type = JStr(<<"text">>) ->
           [Step(loc, text_parts(loc, content),
                 content_chunks(m, text_parts(loc, content)))
               EXCEPT !.thinking = FALSE]
      [] content_type = JStr(<<"card">>) ->
           stream_response_card(m, loc, parse_card_content(content))
      [] OTHER ->
           [Step(loc, IF loc.thinking THEN <<<<"</think>">>>> ELSE <<>>,
                 content_chunks(m, IF loc.thinking THEN <<<<"</think>">>>> ELSE <<>>))
               EXCEPT !.thinking = FALSE]

\* lines 374-395
stream_response_event(m, loc, content_type, content) ==
    CASE content_type = JStr(<<"thinking">>) ->
           [Step(loc, thinking_parts(loc, content),
                 content_chunks(m, thinking_parts(loc, content)))
               EXCEPT !.thinking = TRUE]
      [] content_type = JStr(<<"text">>) ->
           [Step(loc, text_parts(loc, content),
                 content_chunks(m, text_parts(loc, content)))
               EXCEPT !.thinking = FALSE]
      [] content_type = JStr(<<"card">>) ->
           stream_response_card(m, loc, parse_card_content(content))
      [] OTHER -> Step(loc, <<>>, <<>>)

\* lines 372-373: `if content:`, then the details wrappers are removed
stream_response_content(m, loc, content_type, content) ==
    IF ~Truthy(content) THEN Step(loc, <<>>, <<>>)
    ELSE IF content.t # "str" THEN [Step(loc, <<>>, <<>>) EXCEPT !.raised = "TypeError"]
    ELSE stream_response_event(m, loc, content_type, strip_details(content.s))

\* `x or ""`
OrEmpty(v) == IF Truthy(v) THEN v ELSE JStr(<<>>)

\* lines 370-398 on what json.loads gave
stream_response_data(m, loc, data) ==
    IF data = JSONDecodeError THEN Step(loc, <<>>, <<>>)
    ELSE IF data.t # "obj" THEN [Step(loc, <<>>, <<>>) EXCEPT !.raised = "AttributeError"]
    ELSE stream_response_content(m, loc, Get(data, "content_type", JNull),
                                 OrEmpty(Get(data, "content", JNull)))

stream_response_line(m, loc, l) ==
    IF ~startswith_data(l) THEN Step(loc, <<>>, <<>>)
    ELSE stream_response_data(m, loc, json_loads(Tail(l)))

\* lines 399-405: what stream_response yields once the lines are exhausted
stream_response_end(m, loc) ==
    (IF loc.thinking THEN <<generate_chunk(m, DeltaContent(<<"</think>">>), "None")>> ELSE <<>>)
    \o (IF is_r1_model(m) /\ TruthyText(loc.card_content)
        THEN <<generate_chunk(m, DeltaContent(loc.card_content \o <<"\n\n">>), "None")>>
        ELSE <<>>)
    \o <<generate_chunk(m, DeltaEmpty, "stop")>>

(***************************************************************************)
(* One pass of the loop body of the non-streaming path of chat_completions *)
(* (lines 443-468) on one line.                                            *)
(***************************************************************************)
\* lines 461-465
chat_completions_card(m, loc, parsed_content) ==
    IF parsed_content.raised # "" THEN [Step(loc, <<>>, <<>>) EXCEPT !.raised = parsed_content.raised]
    ELSE IF is_r1_model(m)
         THEN [Step(loc, <<>>, <<>>) EXCEPT !.card_content = parsed_content.value]
         ELSE Step(loc, <<parsed_content.value \o <<"\n\n">>>>, <<>>)

\* lines 450-465
chat_completions_event(m, loc, content_type, content) ==
    CASE content_type = JStr(<<"thinking">>) ->
           [Step(loc, (IF ~loc.thinking THEN <<<<"<think>">>>> ELSE <<>>) \o <<content>>, <<>>)
               EXCEPT !.thinking = TRUE]
      [] content_type = JStr(<<"text">>) ->
           [Step(loc, (IF loc.thinking THEN <<<<"</think>">>>> ELSE <<>>) \o <<content>>, <<>>)
               EXCEPT !.thinking = FALSE]
      [] content_type = JStr(<<"card">>) ->
           chat_completions_card(m, loc, parse_card_content(content))
      [] OTHER -> Step(loc, <<>>, <<>>)

\* lines 448-449
chat_completions_content(m, loc, content_type, content) ==
    IF ~Truthy(content) THEN Step(loc, <<>>, <<>>)
    ELSE IF content.t # "str" THEN [Step(loc, <<>>, <<>>) EXCEPT !.raised = "TypeError"]
    ELSE chat_completions_event(m, loc, content_type, strip_details(content.s))

\* lines 446-468 on what json.loads gave
chat_completions_data(m, loc, data) ==
    IF data = JSONDecodeError THEN Step(loc, <<>>, <<>>)
    ELSE IF data.t # "obj" THEN [Step(loc, <<>>, <<>>) EXCEPT !.raised = "AttributeError"]
    ELSE chat_completions_content(m, loc, Get(data, "content_type", JNull),
                                  OrEmpty(Get(data, "content", JNull)))

chat_completions_line(m, loc, l) ==
    IF ~startswith_data(l) THEN Step(loc, <<>>, <<>>)
    ELSE chat_completions_data(m, loc, json_loads(Tail(l)))

\* lines 469-473: the content of the response once the lines are exhausted
chat_completions_end(m, loc) ==
    join(loc.content_parts
         \o (IF loc.thinking THEN <<<<"</think>">>>> ELSE <<>>)
         \o (IF is_r1_model(m) /\ TruthyText(loc.card_content)
             THEN <<loc.card_content \o <<"\n\n">>>>
             ELSE <<>>))

(***************************************************************************)
(* truncate_messages (lines 272-303).  A message is [role, content]; the   *)
(* list returned holds messages of the input, and is given here as the     *)
(* list of their positions in the input.                                   *)
(***************************************************************************)
\* sum(len(msg.content) for msg in ...) over the messages at the positions
RECURSIVE chars(_, _)
chars(msgs, positions) ==
    IF positions = <<>> THEN 0
    ELSE Len(msgs[Head(positions)].content) + chars(msgs, Tail(positions))

\* the positions 1..n, and those among them whose message passes the test
Positions(msgs) == [i \in 1..Len(msgs) |-> i]
IsTurn(msg) == msg.role \in {"user", "assistant"}
IsOther(msg) == ~IsTurn(msg)

\* line 277: other_messages
other_messages(msgs) == SelectSeq(Positions(msgs), LAMBDA i : IsOther(msgs[i]))
\* line 285: ua_messages
ua_messages(msgs) == SelectSeq(Positions(msgs), LAMBDA i : IsTurn(msgs[i]))

\* the loop of lines 289-295 with `continue` in place of `break`
RECURSIVE truncated_ua_continue(_, _, _, _, _)
truncated_ua_continue(msgs, ua, k, current_chars, available_chars) ==
    IF k = 0 THEN <<>>
    ELSE IF current_chars + Len(msgs[ua[k]].content) <= available_chars
         THEN Append(truncated_ua_continue(msgs, ua, k - 1,
                         current_chars + Len(msgs[ua[k]].content), available_chars),
                     ua[k])
         ELSE truncated_ua_continue(msgs, ua, k - 1, current_chars, available_chars)

\* the loop of lines 289-295 with append in place of insert(0, msg)
RECURSIVE truncated_ua_append(_, _, _, _, _)
truncated_ua_append(msgs, ua, k, current_chars, available_chars) ==
    IF k = 0 THEN <<>>
    ELSE IF current_chars + Len(msgs[ua[k]].content) <= available_chars
         THEN <<ua[k]>> \o truncated_ua_append(msgs, ua, k - 1,
                               current_chars + Len(msgs[ua[k]].content), available_chars)
         ELSE <<>>

\* lines 286-295: truncated_ua once the loop has looked at ua[k], ua[k-1], ...
RECURSIVE truncated_ua(_, _, _, _, _)
truncated_ua(msgs, ua, k, current_chars, available_chars) ==
    IF k = 0 THEN <<>>
    ELSE IF current_chars + Len(msgs[ua[k]].content) <= available_chars
         THEN Append(truncated_ua(msgs, ua, k - 1,
                         current_chars + Len(msgs[ua[k]].content), available_chars),
                     ua[k])
         ELSE <<>>

\* lines 277-303, given other_messages and available_chars
truncate_rest(msgs, other, available_chars) ==
    IF available_chars <= 0 THEN other
    ELSE other \o truncated_ua(msgs, ua_messages(msgs), Len(ua_messages(msgs)), 0,
                               available_chars)

truncate_messages(msgs, budget) ==
    IF chars(msgs, Positions(msgs)) <= budget THEN Positions(msgs)
    ELSE truncate_rest(msgs, other_messages(msgs),
                       budget - chars(msgs, other_messages(msgs)))

\* the messages a request can carry (lines 207-209)
Roles == {"system", "user", "assistant"}
Contents == UNION {[1..n -> {"a"}] : n \in 0..MaxContent}
Messages == [role : Roles, content : Contents]
MessageLists == UNION {[1..n -> Messages] : n \in 0..MaxMsgs}

(***************************************************************************)
(* concatenate_messages (lines 235-241).                                   *)
(***************************************************************************)
\* re.sub(r"<think>.*?</think>", "", content, flags=re.DOTALL)
RECURSIVE strip_think(_)
strip_think(s) ==
    IF s = <<>> THEN <<>>
    ELSE IF Head(s) = "<think>" /\ \E j \in 2..Len(s) : s[j] = "</think>"
         THEN LET j == CHOOSE i \in 2..Len(s) :
                           /\ s[i] = "</think>"
                           /\ \A k \in 2..(i - 1) : s[k] # "</think>"
              IN  strip_think(SubSeq(s, j + 1, Len(s)))
         ELSE <<Head(s)>> \o strip_think(Tail(s))

\* the whitespace tokens
Whitespace == {" ", "\n"}

\* str.lstrip(), str.rstrip(), str.strip()
RECURSIVE lstrip(_)
lstrip(s) == IF s # <<>> /\ Head(s) \in Whitespace THEN lstrip(Tail(s)) ELSE s
RECURSIVE rstrip(_)
rstrip(s) ==
    IF s # <<>> /\ s[Len(s)] \in Whitespace THEN rstrip(SubSeq(s, 1, Len(s) - 1)) ELSE s
strip(s) == rstrip(lstrip(s))

\* str.capitalize() of a role
capitalize(role) ==
    CASE role = "system" -> "System"
      [] role = "user" -> "User"
      [] role = "assistant" -> "Assistant"

\* line 240 with the test of line 239 left out
concatenated_entry_unchecked(role, content) == << <<capitalize(role), ": ">> \o content >>

\* lines 239-240: what one message appends to concatenated
concatenated_entry(role, content) ==
    IF content # <<>> THEN << <<capitalize(role), ": ">> \o content >> ELSE <<>>

\* lines 236-240: the list concatenated after the loop
RECURSIVE concatenated(_)
concatenated(msgs) ==
    IF msgs = <<>> THEN <<>>
    ELSE concatenated_entry(Head(msgs).role, strip(strip_think(Head(msgs).content)))
         \o concatenated(Tail(msgs))

\* line 241
concatenate_messages(msgs) == join_rows(concatenated(msgs))

\* the contents a message handed to concatenate_messages can have
QuestionContents ==
    { <<>>,
      <<"\n">>,
      <<" ", "a", "\n">>,
      <<"a", "\n", "b">>,
      <<"<think>", "x", "\n", "</think>">>,
      <<"<think>", "x", "</think>", "\n", "a", "<think>", "y", "</think>">>,
      <<"<think>", "x">> }
QuestionMessages == [role : Roles, content : QuestionContents]
QuestionLists == UNION {[1..n -> QuestionMessages] : n \in 0..MaxMsgs}

(***************************************************************************)
(* The user-agent cache (lines 64-69, 118, 131-137).                       *)
(***************************************************************************)
\* line 64: default_user_agent
default_user_agent == "Mozilla/5.0 ... Chrome/133.0.0.0 Safari/537.36"
\* the strings ua.random can give
UserAgents == {"ua1", "ua2"}
\* the identifiers generate_device_id can give (lines 127-128)
DeviceIds == 1..MaxDevices
\* no identifier, no user agent
NoDevice == 0
NoUA == "<none>"
\* the requests in flight
Clients == 1..MaxClients

\* device_ua_map is a function on DeviceIds; NoUA stands for a key not in it
InMap(map, device_id) == map[device_id] # NoUA

\* get_user_agent storing a new random value on every call
get_user_agent_overwrite(random_ua, map, device_id, random) ==
    IF ~random_ua THEN [ua |-> default_user_agent, map |-> map]
    ELSE [ua |-> random, map |-> [map EXCEPT ![device_id] = random]]

\* lines 131-137: the string returned and device_ua_map after the call;
\* random is the value ua.random would give
get_user_agent(random_ua, map, device_id, random) ==
    IF ~random_ua THEN [ua |-> default_user_agent, map |-> map]
    ELSE IF ~InMap(map, device_id)
         THEN [ua |-> random, map |-> [map EXCEPT ![device_id] = random]]
         ELSE [ua |-> map[device_id], map |-> map]

(***************************************************************************)
(* State.  Two requests for the same model are served side by side, one    *)
(* with stream = true (prefix s_) and one with stream = false (prefix n_); *)
(* the upstream answers both with the same status and the same lines.      *)
(* The locals of stream_response and of chat_completions carry the names   *)
(* they have in the code.                                                  *)
(***************************************************************************)
VARIABLES
    requested,         \* request.model as received
    model,             \* request.model once chat_completions has normalised it
    upstream_status,   \* status_code of the upstream streaming call, 0 before it
    upstream_state,    \* "idle", "open", "exhausted" or "broken" (the read failed)
    line,              \* the line the upstream delivered last
    s_pc,              \* "received", "created", "reading", "done", "http500", "raised"
    s_thinking, s_content_parts, s_card_content,
    s_chunks,          \* the chunks stream_response has yielded
    s_read,            \* lines stream_response has read
    n_pc,
    n_thinking, n_content_parts, n_card_content,
    n_response,        \* the HTTP response of the non-streaming request
    n_read,            \* lines the non-streaming path has read
    create_response,   \* the answer to the session-creation call, NoCreate before it
    s_calls, n_calls,  \* the upstream calls each request has made, in order
    messages,          \* truncate_messages: the input list
    max_chars,         \* truncate_messages: the budget
    truncated,         \* truncate_messages: the positions (in messages) returned
    t_pc,              \* "idle", "call", "returned"
    c_messages,        \* concatenate_messages: the input list
    question,          \* concatenate_messages: the string returned
    c_pc,              \* "idle", "call", "returned"
    RANDOM_UA,         \* the setting of line 32
    device_ua_map,     \* line 118
    u_pc,              \* of each client: "idle", "create", "prepare", "sent"
    device_id,         \* of each client: the identifier of its request
    ua_create,         \* of each client: User-Agent of its session-creation call
    ua_chat,           \* of each client: User-Agent of its streaming call
    received,          \* requests received so far
    ua_returned        \* per identifier: the strings get_user_agent has returned

rvars == <<requested, model, upstream_status, upstream_state, line,
           s_pc, s_thinking, s_content_parts, s_card_content, s_chunks, s_read,
           n_pc, n_thinking, n_content_parts, n_card_content, n_response, n_read,
           create_response, s_calls, n_calls>>
tvars == <<messages, max_chars, truncated, t_pc>>
cvars == <<c_messages, question, c_pc>>
uvars == <<RANDOM_UA, device_ua_map, u_pc, device_id, ua_create, ua_chat, received,
           ua_returned>>
vars == <<rvars, tvars, cvars, uvars>>

\* no request has touched the user-agent cache
NoUserAgents ==
    /\ RANDOM_UA = FALSE
    /\ device_ua_map = [d \in DeviceIds |-> NoUA]
    /\ u_pc = [p \in Clients |-> "idle"]
    /\ device_id = [p \in Clients |-> NoDevice]
    /\ ua_create = [p \in Clients |-> NoUA]
    /\ ua_chat = [p \in Clients |-> NoUA]
    /\ received = 0
    /\ ua_returned = [d \in DeviceIds |-> {}]

\* no session-creation call answered yet
NoCreate == [status_code |-> 0, success |-> FALSE]

s_loc == [thinking |-> s_thinking, content_parts |-> s_content_parts,
          card_content |-> s_card_content]
n_loc == [thinking |-> n_thinking, content_parts |-> n_content_parts,
          card_content |-> n_card_content]

Init ==
    /\ requested \in Requests
    /\ model = requested
    /\ upstream_status = 0
    /\ upstream_state = "idle"
    /\ line = NoLine
    /\ s_pc = "received" /\ n_pc = "received"
    /\ s_thinking = FALSE /\ n_thinking = FALSE
    /\ s_content_parts = <<>> /\ n_content_parts = <<>>
    /\ s_card_content = None /\ n_card_content = None
    /\ s_chunks = <<>>
    /\ n_response = NoResponse
    /\ s_read = 0 /\ n_read = 0
    /\ create_response = NoCreate
    /\ s_calls = <<>> /\ n_calls = <<>>
    /\ messages = <<>> /\ max_chars = 0 /\ truncated = <<>> /\ t_pc = "idle"
    /\ c_messages = <<>> /\ question = <<>> /\ c_pc = "idle"
    /\ NoUserAgents

(***************************************************************************)
(* chat_completions, lines 415-423: normalise the model, create the        *)
(* conversation; a failure ends the request with status 500.               *)
(***************************************************************************)
ChatCompletions(status_code, success) ==
    /\ s_pc = "received" /\ n_pc = "received"
    /\ model' = normalize_model(requested)
    /\ LET created == create_conversation(model', status_code, success)
           next_pc == CASE created = "ok" -> "created"
                        [] created = "HTTPException" -> "http500"
                        [] OTHER -> "raised"
       IN  /\ s_pc' = next_pc
           /\ n_pc' = next_pc
           /\ n_response' = IF created = "ok" THEN n_response ELSE ErrorResponse(500)
           \* line 177: the call is made unless line 152 raised before it
           /\ create_response' = IF created = "KeyError" THEN create_response
                                  ELSE [status_code |-> status_code, success |-> success]
           /\ s_calls' = IF created = "KeyError" THEN s_calls ELSE Append(s_calls, "create")
           /\ n_calls' = IF created = "KeyError" THEN n_calls ELSE Append(n_calls, "create")
    /\ UNCHANGED <<requested, upstream_status, upstream_state, line,
                   s_thinking, s_content_parts, s_card_content, s_chunks, s_read,
                   n_thinking, n_content_parts, n_card_content, n_read>>
    /\ UNCHANGED <<tvars, cvars, uvars>>

(***************************************************************************)
(* The upstream answers the streaming call.  stream_response (lines        *)
(* 353-365) yields the role chunk and, unless the status is 200, the error *)
(* chunk, and returns; chat_completions (lines 425-441) raises             *)
(* HTTPException(500) unless the status is 200.                            *)
(***************************************************************************)
\* stream_response_open with the error chunk not marked as the last one
stream_response_open_unmarked(m, status_code) ==
    <<generate_chunk(m, DeltaRole, "None")>>
    \o (IF status_code # 200
        THEN <<generate_chunk(m, DeltaContent(error_msg(status_code)), "None")>>
        ELSE <<>>)

\* lines 353 and 361-365: what stream_response yields before it reads a line
stream_response_open(m, status_code) ==
    <<generate_chunk(m, DeltaRole, "None")>>
    \o (IF status_code # 200
        THEN <<generate_chunk(m, DeltaContent(error_msg(status_code)), "stop")>>
        ELSE <<>>)

\* chat_completions_open without the status check
chat_completions_open_unchecked(status_code) == "reading"

\* lines 438-441: where chat_completions goes on the status
chat_completions_open(status_code) == IF status_code # 200 THEN "http500" ELSE "reading"

StreamOpen(status_code) ==
    /\ s_pc = "created"
    /\ s_thinking' = FALSE
    /\ s_content_parts' = <<>>
    /\ s_card_content' = None
    /\ s_chunks' = stream_response_open(model, status_code)
    /\ s_pc' = IF status_code # 200 THEN "done" ELSE "reading"
    /\ s_calls' = Append(s_calls, "chat")
    /\ UNCHANGED s_read

NonStreamOpen(status_code) ==
    /\ n_pc = "created"
    /\ n_thinking' = FALSE
    /\ n_content_parts' = <<>>
    /\ n_card_content' = None
    /\ n_pc' = chat_completions_open(status_code)
    /\ n_response' = IF n_pc' = "http500" THEN ErrorResponse(500) ELSE n_response
    /\ n_calls' = Append(n_calls, "chat")
    /\ UNCHANGED n_read

UpstreamResponse(status_code) ==
    /\ upstream_state = "idle"
    /\ upstream_status' = status_code
    /\ upstream_state' = "open"
    /\ StreamOpen(status_code)
    /\ NonStreamOpen(status_code)
    /\ UNCHANGED <<requested, model, line, create_response>>
    /\ UNCHANGED <<tvars, cvars, uvars>>

(***************************************************************************)
(* The upstream delivers one line; each request still in its loop runs the *)
(* loop body on it.                                                        *)
(***************************************************************************)
s_vars == <<s_pc, s_thinking, s_content_parts, s_card_content, s_chunks, s_read>>
n_vars == <<n_pc, n_thinking, n_content_parts, n_card_content, n_response, n_read>>

StreamLine(l) ==
    IF s_pc # "reading" THEN UNCHANGED s_vars
    ELSE /\ \E r \in {stream_response_line(model, s_loc, l)} :
            /\ s_thinking' = r.thinking
            /\ s_content_parts' = r.content_parts
            /\ s_card_content' = r.card_content
            /\ s_chunks' = s_chunks \o r.yielded
            /\ s_pc' = IF r.raised # "" THEN "raised" ELSE "reading"
         /\ s_read' = s_read + 1

NonStreamLine(l) ==
    IF n_pc # "reading" THEN UNCHANGED n_vars
    ELSE /\ \E r \in {chat_completions_line(model, n_loc, l)} :
            /\ n_thinking' = r.thinking
            /\ n_content_parts' = r.content_parts
            /\ n_card_content' = r.card_content
            /\ n_pc' = IF r.raised # "" THEN "raised" ELSE "reading"
            /\ n_response' = IF r.raised # "" THEN ErrorResponse(500) ELSE n_response
         /\ n_read' = n_read + 1

UpstreamLine(l) ==
    /\ upstream_state = "open"
    /\ "reading" \in {s_pc, n_pc}
    /\ s_read < MaxLines /\ n_read < MaxLines
    /\ line' = l
    /\ StreamLine(l)
    /\ NonStreamLine(l)
    /\ UNCHANGED <<requested, model, upstream_status, upstream_state>>
    /\ UNCHANGED <<create_response, s_calls, n_calls>>
    /\ UNCHANGED <<tvars, cvars, uvars>>

(***************************************************************************)
(* The upstream response ends: aiter_lines is exhausted, and each request  *)
(* still in its loop finishes (lines 399-407, lines 469-484).              *)
(***************************************************************************)
\* content_parts after lines 399-404 (lines 469-472)
final_parts(m, loc) ==
    loc.content_parts
    \o (IF loc.thinking THEN <<<<"</think>">>>> ELSE <<>>)
    \o (IF is_r1_model(m) /\ TruthyText(loc.card_content)
        THEN <<loc.card_content \o <<"\n\n">>>>
        ELSE <<>>)

StreamEnd ==
    IF s_pc # "reading" THEN UNCHANGED s_vars
    ELSE /\ s_chunks' = s_chunks \o stream_response_end(model, s_loc)
         /\ s_content_parts' = final_parts(model, s_loc)
         /\ s_pc' = "done"
         /\ UNCHANGED <<s_thinking, s_card_content, s_read>>

NonStreamEnd ==
    IF n_pc # "reading" THEN UNCHANGED n_vars
    ELSE /\ n_response' = response_data(model, chat_completions_end(model, n_loc))
         /\ n_content_parts' = final_parts(model, n_loc)
         /\ n_pc' = "done"
         /\ UNCHANGED <<n_thinking, n_card_content, n_read>>

UpstreamEnd ==
    /\ upstream_state = "open"
    /\ "reading" \in {s_pc, n_pc}
    /\ upstream_state' = "exhausted"
    /\ StreamEnd
    /\ NonStreamEnd
    /\ UNCHANGED <<requested, model, upstream_status, line>>
    /\ UNCHANGED <<create_response, s_calls, n_calls>>
    /\ UNCHANGED <<tvars, cvars, uvars>>

(***************************************************************************)
(* The read of the upstream response fails part-way: aiter_lines raises    *)
(* (an httpx transport error).  Nothing in lines 359-405 or 436-468        *)
(* catches it: the generator ends with the exception, and the              *)
(* non-streaming request ends with the framework's status 500.             *)
(***************************************************************************)
StreamReadError ==
    IF s_pc # "reading" THEN UNCHANGED s_vars
    ELSE /\ s_pc' = "raised"
         /\ UNCHANGED <<s_thinking, s_content_parts, s_card_content, s_chunks, s_read>>

NonStreamReadError ==
    IF n_pc # "reading" THEN UNCHANGED n_vars
    ELSE /\ n_pc' = "raised"
         /\ n_response' = ErrorResponse(500)
         /\ UNCHANGED <<n_thinking, n_content_parts, n_card_content, n_read>>

UpstreamReadError ==
    /\ upstream_state = "open"
    /\ "reading" \in {s_pc, n_pc}
    /\ upstream_state' = "broken"
    /\ StreamReadError
    /\ NonStreamReadError
    /\ UNCHANGED <<requested, model, upstream_status, line>>
    /\ UNCHANGED <<create_response, s_calls, n_calls>>
    /\ UNCHANGED <<tvars, cvars, uvars>>

Next ==
    \/ \E status_code \in StatusCodes, success \in BOOLEAN :
           ChatCompletions(status_code, success)
    \/ \E status_code \in StatusCodes : UpstreamResponse(status_code)
    \/ \E l \in Lines : UpstreamLine(l)
    \/ UpstreamEnd
    \/ UpstreamReadError

Spec == Init /\ [][Next]_vars

(***************************************************************************)
(* Observations used by the properties.                                    *)
(***************************************************************************)
\* the concatenation, in order, of the delta.content values of the chunks
RECURSIVE delta_contents(_)
delta_contents(chunks) ==
    IF chunks = <<>> THEN <<>>
    ELSE (IF Head(chunks).delta.has_content THEN Head(chunks).delta.content ELSE <<>>)
         \o delta_contents(Tail(chunks))

\* how many chunks carry exactly the fragment c
Count(chunks, c) ==
    Cardinality({i \in 1..Len(chunks) :
                    chunks[i].delta.has_content /\ chunks[i].delta.content = c})

\* how many chunks are stop-marked
Stops(chunks) == Cardinality({i \in 1..Len(chunks) : chunks[i].finish_reason = "stop"})

\* the value a line carries after "data:", if it is a JSON document
line_data(l) == IF startswith_data(l) THEN json_loads(Tail(l)) ELSE JSONDecodeError

\* l is a well-formed upstream event {content_type, content: string}
IsEvent(l) ==
    /\ line_data(l).t = "obj"
    /\ Get(line_data(l), "content", JStr(<<>>)).t = "str"
    /\ Get(line_data(l), "content_type", JNull).t = "str"

\* l is a card event with content
IsCardEvent(l) ==
    /\ IsEvent(l)
    /\ Get(line_data(l), "content_type", JNull) = JStr(<<"card">>)
    /\ Get(line_data(l), "content", JStr(<<>>)).s # <<>>

\* what parse_card_content makes of the card event l
Rendering(l) == parse_card_content(strip_details(Get(line_data(l), "content", JStr(<<>>)).s))

\* the catalog entry of the model carries the deep-reasoning flag
HasDeepFlag(m) ==
    m \in DOMAIN model_to_user_action /\ InList("deep", model_to_user_action[m].user_action)

\* this step is the streaming request reading a card event
ReadsCardEvent == s_pc = "reading" /\ s_read' = s_read + 1 /\ IsCardEvent(line')

(***************************************************************************)
(* C1.  For every model and every sequence of lines of an accepted         *)
(* (status 200) upstream call, the concatenation of the delta.content      *)
(* values stream_response emitted equals the content of the chat.completion*)
(* message the non-streaming path returns for the same lines.  Stated for  *)
(* the runs in which the upstream delivered its lines without a read       *)
(* failure and both requests have ended.                                   *)
(***************************************************************************)
C1_StreamEqualsNonStream ==
    (/\ upstream_status = 200
     /\ upstream_state # "broken"
     /\ s_pc \in {"done", "raised"}
     /\ n_pc \in {"done", "raised"})
    => /\ n_response.object = "chat.completion"
       /\ n_response.content = delta_contents(s_chunks)

\* what does hold: whenever the non-streaming path returns a message, the
\* streamed fragments concatenate to its content
EqualWhenBothComplete ==
    (s_pc = "done" /\ n_pc = "done" /\ upstream_status = 200)
    => n_response.content = delta_contents(s_chunks)

(***************************************************************************)
(* C2.  For any sequence of upstream events, when stream_response has      *)
(* finished, it emitted as many "<think>" markers as "</think>" markers    *)
(* and exactly one stop marker, as the last chunk.  Stated for the runs    *)
(* whose last line read is a well-formed event and whose read did not fail.*)
(***************************************************************************)
C2_BalancedAndStopped ==
    (/\ upstream_status = 200
     /\ upstream_state # "broken"
     /\ s_pc \in {"done", "raised"}
     /\ IsEvent(line))
    => /\ Count(s_chunks, <<"<think>">>) = Count(s_chunks, <<"</think>">>)
       /\ Stops(s_chunks) = 1
       /\ s_chunks[Len(s_chunks)].finish_reason = "stop"

(***************************************************************************)
(* C3.  parse_card_content raises nothing, so no card event aborts either  *)
(* request: after a card event has been read (and the read itself did not  *)
(* fail) neither request has ended with an exception.                      *)
(***************************************************************************)
C3_CardNeverAborts ==
    (IsCardEvent(line) /\ upstream_state # "broken")
    => /\ Rendering(line).raised = ""
       /\ s_pc # "raised"
       /\ n_pc # "raised"

(***************************************************************************)
(* C4, as claimed.  For a model whose catalog entry carries the "deep"     *)
(* flag a card event yields no chunk while the upstream is being read; for *)
(* every other model a card event that parse_card_content renders yields   *)
(* exactly its rendering followed by two newlines, at once, and leaves     *)
(* thinking unchanged.                                                     *)
(***************************************************************************)
C4_DeepFlagDefersCards ==
    [][ReadsCardEvent =>
          IF HasDeepFlag(model)
          THEN s_chunks' = s_chunks
          ELSE Rendering(line').raised = ""
               => /\ s_chunks' = Append(s_chunks,
                                        generate_chunk(model,
                                            DeltaContent(Rendering(line').value \o <<"\n\n">>),
                                            "None"))
                  /\ s_thinking' = s_thinking]_vars

(***************************************************************************)
(* C4, amended.  The deferral is keyed on the model identifier: for        *)
(* deepseek-r1 and deepseek-r1-search a card event yields no chunk while   *)
(* the upstream is being read; for every other model, the other deep-flag  *)
(* models included, a card event that parse_card_content renders yields    *)
(* exactly its rendering followed by two newlines, at once, and leaves     *)
(* thinking unchanged; a card event on which parse_card_content raises     *)
(* yields no chunk and ends the stream.                                    *)
(***************************************************************************)
C4_R1ModelsDeferCards ==
    [][ReadsCardEvent =>
          IF Rendering(line').raised # ""
          THEN s_chunks' = s_chunks /\ s_pc' = "raised"
          ELSE IF model \in {"deepseek-r1", "deepseek-r1-search"}
          THEN s_chunks' = s_chunks /\ s_pc' = "reading"
          ELSE /\ s_chunks' = Append(s_chunks,
                                     generate_chunk(model,
                                         DeltaContent(Rendering(line').value \o <<"\n\n">>),
                                         "None"))
               /\ s_thinking' = s_thinking
               /\ s_pc' = "reading"]_vars

\* a deep-flag model that is no r1 model has emitted a card inline, mid-stream
C4_Witness ==
    /\ HasDeepFlag(model)
    /\ model \notin {"deepseek-r1", "deepseek-r1-search"}
    /\ s_pc = "reading"
    /\ IsCardEvent(line)
    /\ s_chunks # <<>>
    /\ s_chunks[Len(s_chunks)].delta.content = Rendering(line).value \o <<"\n\n">>

(***************************************************************************)
(* C5.  Once the upstream call has been accepted, finalization runs        *)
(* however the stream ends (exhausted, or the read failing part-way): the  *)
(* think span is closed and the stop marker is the last chunk.             *)
(***************************************************************************)
C5_FinalizationAlwaysRuns ==
    (upstream_status = 200 /\ upstream_state \in {"exhausted", "broken"})
    => /\ s_chunks[Len(s_chunks)] = generate_chunk(model, DeltaEmpty, "stop")
       /\ Stops(s_chunks) = 1
       /\ Count(s_chunks, <<"<think>">>) = Count(s_chunks, <<"</think>">>)

(***************************************************************************)
(* C6, as claimed.  On a status other than 200 the streaming request reads *)
(* no line and yields, after the role chunk, one content chunk with the    *)
(* error message and then a stop-marked terminal chunk, and nothing more.  *)
(***************************************************************************)
C6_ErrorThenStopChunk ==
    (upstream_status \notin {0, 200})
    => /\ s_read = 0
       /\ s_chunks = << generate_chunk(model, DeltaRole, "None"),
                        generate_chunk(model, DeltaContent(error_msg(upstream_status)), "None"),
                        generate_chunk(model, DeltaEmpty, "stop") >>

(***************************************************************************)
(* C6, amended.  On a status other than 200 the streaming request reads no *)
(* line and yields, after the role chunk, exactly one chunk: it carries    *)
(* the error message as its content and is itself stop-marked              *)
(* (finish_reason "stop"); nothing follows it.                             *)
(***************************************************************************)
C6_ErrorChunkIsStopChunk ==
    (upstream_status \notin {0, 200})
    => /\ s_read = 0
       /\ s_pc = "done"
       /\ s_chunks = << generate_chunk(model, DeltaRole, "None"),
                        generate_chunk(model, DeltaContent(error_msg(upstream_status)), "stop") >>

C6_Witness == upstream_status = 503 /\ s_pc = "done" /\ Len(s_chunks) = 2

(***************************************************************************)
(* C7.  In non-streaming mode a status other than 200 ends the request     *)
(* with status 500: no line is read and no chat.completion body is         *)
(* returned, then or later.                                                *)
(***************************************************************************)
C7_NonStreamError500 ==
    (upstream_status \notin {0, 200})
    => /\ n_read = 0
       /\ n_pc = "http500"
       /\ n_response = ErrorResponse(500)

C7_Witness == upstream_status = 503 /\ n_pc = "http500" /\ n_response.status = 500

(***************************************************************************)
(* C8.  The requested model is replaced by the default model exactly when  *)
(* it has no entry in the catalog (model_to_user_action); a model with an  *)
(* entry is used unchanged, and the request proceeds with an entry that    *)
(* exists.                                                                 *)
(***************************************************************************)
C8_ReplacedIffNoEntry ==
    (s_pc # "received")
    => /\ (requested \notin DOMAIN model_to_user_action) => model = default_model
       /\ (requested \in DOMAIN model_to_user_action) => model = requested
       /\ model \in DOMAIN model_to_user_action
       /\ s_pc # "raised" \/ upstream_status = 200
(***************************************************************************)
(* Observations on the think markers and on single reads.                  *)
(***************************************************************************)
\* the fragments the content chunks carry, in order
RECURSIVE Fragments(_)
Fragments(chunks) ==
    IF chunks = <<>> THEN <<>>
    ELSE (IF Head(chunks).delta.has_content THEN <<Head(chunks).delta.content>> ELSE <<>>)
         \o Fragments(Tail(chunks))

ThinkMarkers == {<<"<think>">>, <<"</think>">>}
\* the markers among the fragments, in order
Markers(parts) == SelectSeq(parts, LAMBDA c : c \in ThinkMarkers)
\* "<think>", "</think>", "<think>", ... : strict alternation from "<think>"
Alternate(ms) ==
    \A i \in 1..Len(ms) : ms[i] = IF i % 2 = 1 THEN <<"<think>">> ELSE <<"</think>">>

\* l is a well-formed event of the given type with non-empty content
IsContentEvent(l, type) ==
    /\ IsEvent(l)
    /\ Get(line_data(l), "content_type", JNull) = JStr(<<type>>)
    /\ Get(line_data(l), "content", JStr(<<>>)).s # <<>>

\* the marker the claim allows when l is read in the given thinking state
ExpectedMarker(thinking, l) ==
    IF IsContentEvent(l, "thinking") /\ ~thinking THEN <<<<"<think>">>>>
    ELSE IF IsContentEvent(l, "text") /\ thinking THEN <<<<"</think>">>>>
    ELSE <<>>

\* this step is a request running its loop body on a line, or finishing
StreamReads == s_pc = "reading" /\ s_read' = s_read + 1
NonStreamReads == n_pc = "reading" /\ n_read' = n_read + 1
StreamEnds == s_pc = "reading" /\ s_pc' = "done"
NonStreamEnds == n_pc = "reading" /\ n_pc' = "done"

\* the step leaves the segmenter of the request as it was, still reading
StreamUntouched ==
    /\ UNCHANGED <<s_thinking, s_content_parts, s_card_content, s_chunks>>
    /\ s_pc' = "reading"
NonStreamUntouched ==
    /\ UNCHANGED <<n_thinking, n_content_parts, n_card_content, n_response>>
    /\ n_pc' = "reading"

(***************************************************************************)
(* C12.  In the fragments produced for any upstream line sequence, in      *)
(* both modes, the "<think>" and "</think>" markers strictly alternate     *)
(* starting with "<think>"; while a request reads, its thinking flag says  *)
(* whether a span is open.  A "<think>" is emitted exactly by a thinking   *)
(* event (with content) read while no span is open, a "</think>" exactly   *)
(* by a text event (with content) read while one is open or by the end of  *)
(* the lines while one is open; a thinking event read inside a span emits  *)
(* no marker.  When a request has finished, every span is closed.          *)
(***************************************************************************)
C12_Always ==
    /\ Alternate(Markers(Fragments(s_chunks)))
    /\ Alternate(Markers(n_content_parts))
    /\ (s_pc = "reading") => (s_thinking <=> Len(Markers(Fragments(s_chunks))) % 2 = 1)
    /\ (n_pc = "reading") => (n_thinking <=> Len(Markers(n_content_parts)) % 2 = 1)
    /\ (s_pc = "done") => Len(Markers(Fragments(s_chunks))) % 2 = 0
    /\ (n_pc = "done") => Len(Markers(n_content_parts)) % 2 = 0

C12_Step ==
    /\ StreamReads =>
           Markers(Fragments(s_chunks'))
               = Markers(Fragments(s_chunks)) \o ExpectedMarker(s_thinking, line')
    /\ NonStreamReads =>
           Markers(n_content_parts')
               = Markers(n_content_parts) \o ExpectedMarker(n_thinking, line')
    /\ StreamEnds =>
           Markers(Fragments(s_chunks'))
               = Markers(Fragments(s_chunks))
                   \o (IF s_thinking THEN <<<<"</think>">>>> ELSE <<>>)
    /\ NonStreamEnds =>
           Markers(n_content_parts')
               = Markers(n_content_parts)
                   \o (IF n_thinking THEN <<<<"</think>">>>> ELSE <<>>)

C12_MarkersAlternate == []C12_Always /\ [][C12_Step]_vars

\* thinking, text, thinking, end of lines: two spans, both closed, in both modes
C12_Witness ==
    /\ s_pc = "done" /\ n_pc = "done"
    /\ Markers(Fragments(s_chunks))
           = << <<"<think>">>, <<"</think>">>, <<"<think>">>, <<"</think>">> >>
    /\ Markers(n_content_parts) = Markers(Fragments(s_chunks))

(***************************************************************************)
(* C13.  An event whose content is empty or absent, or is empty once its   *)
(* <details>...</details> wrappers are stripped, produces no fragment (no  *)
(* content fragment, no think marker, no card rendering) and changes no    *)
(* state, in either mode.                                                  *)
(***************************************************************************)
EmptyAfterStrip(l) ==
    IsEvent(l) /\ strip_details(Get(line_data(l), "content", JStr(<<>>)).s) = <<>>

C13_EmptyEventIgnored ==
    [][/\ (StreamReads /\ EmptyAfterStrip(line')) => StreamUntouched
       /\ (NonStreamReads /\ EmptyAfterStrip(line')) => NonStreamUntouched]_vars

\* what does hold: an event whose content is empty or absent as it arrives
\* is ignored
EmptyContentIgnored ==
    [][/\ (StreamReads /\ IsEvent(line')
             /\ Get(line_data(line'), "content", JStr(<<>>)).s = <<>>) => StreamUntouched
       /\ (NonStreamReads /\ IsEvent(line')
             /\ Get(line_data(line'), "content", JStr(<<>>)).s = <<>>) => NonStreamUntouched]_vars

(***************************************************************************)
(* C14.  A data line that is no structured event (text that is no JSON, or *)
(* JSON that is no object) is skipped: no fragment, thinking and the       *)
(* pending card unchanged, and the request goes on reading.                *)
(***************************************************************************)
NotStructured(l) == startswith_data(l) /\ line_data(l).t # "obj"

C14_MalformedSkipped ==
    [][/\ (StreamReads /\ NotStructured(line')) => StreamUntouched
       /\ (NonStreamReads /\ NotStructured(line')) => NonStreamUntouched]_vars

\* what does hold: a data line that is no JSON at all is skipped
NotJSONSkipped ==
    [][/\ (StreamReads /\ startswith_data(line') /\ line_data(line') = JSONDecodeError)
             => StreamUntouched
       /\ (NonStreamReads /\ startswith_data(line') /\ line_data(line') = JSONDecodeError)
             => NonStreamUntouched]_vars

(***************************************************************************)
(* C15.  For deepseek-r1 and deepseek-r1-search, once the lines of an      *)
(* accepted upstream call that held at least one card event have been      *)
(* delivered (without a read failure) and stream_response has ended,       *)
(* exactly one card fragment was emitted: the rendering of the last card   *)
(* event followed by two newlines, as the chunk just before the stop       *)
(* chunk, which is the last one.                                           *)
(***************************************************************************)
\* the fragments a rendered card can give
CardFragments ==
    {Rendering(l).value \o <<"\n\n">> : l \in {c \in Lines : IsCardEvent(c)}}

C15_LastCardBeforeStop ==
    (/\ model \in {"deepseek-r1", "deepseek-r1-search"}
     /\ upstream_status = 200
     /\ upstream_state # "broken"
     /\ s_pc \in {"done", "raised"}
     /\ s_card_content # None \/ IsCardEvent(line))
    => /\ Len(s_chunks) >= 3
       /\ s_chunks[Len(s_chunks)] = generate_chunk(model, DeltaEmpty, "stop")
       /\ Stops(s_chunks) = 1
       /\ s_chunks[Len(s_chunks) - 1]
              = generate_chunk(model, DeltaContent(s_card_content \o <<"\n\n">>), "None")
       /\ IsCardEvent(line) => s_card_content = Rendering(line).value
       /\ Cardinality({i \in 1..Len(s_chunks) :
                          /\ s_chunks[i].delta.has_content
                          /\ s_chunks[i].delta.content \in CardFragments}) = 1

\* what does hold: when finalization has run, the pending card is the one
\* card fragment, just before the stop chunk
LastCardBeforeStopWhenDone ==
    (/\ model \in {"deepseek-r1", "deepseek-r1-search"}
     /\ upstream_status = 200
     /\ s_pc = "done"
     /\ s_card_content # None)
    => /\ Len(s_chunks) >= 3
       /\ s_chunks[Len(s_chunks)] = generate_chunk(model, DeltaEmpty, "stop")
       /\ s_chunks[Len(s_chunks) - 1]
              = generate_chunk(model, DeltaContent(s_card_content \o <<"\n\n">>), "None")
       /\ Cardinality({i \in 1..Len(s_chunks) :
                          /\ s_chunks[i].delta.has_content
                          /\ s_chunks[i].delta.content \in CardFragments}) = 1

(***************************************************************************)
(* C20.  A line that does not start with "data:", and a well-formed event  *)
(* whose content_type is none of thinking, text and card, emits no         *)
(* fragment and leaves thinking, the accumulated fragments and the pending *)
(* card as they were, in both modes; read inside a think span, it does not *)
(* close the span.                                                         *)
(***************************************************************************)
Ignorable(l) ==
    \/ ~startswith_data(l)
    \/ /\ IsEvent(l)
       /\ Get(line_data(l), "content_type", JNull)
              \notin {JStr(<<"thinking">>), JStr(<<"text">>), JStr(<<"card">>)}

C20_OtherLinesIgnored ==
    [][/\ (StreamReads /\ Ignorable(line')) => StreamUntouched
       /\ (NonStreamReads /\ Ignorable(line')) => NonStreamUntouched]_vars

\* an event of another type was read inside a think span, which stays open
C20_Witness ==
    /\ line = <<"data:", "EV_OTHER">>
    /\ s_pc = "reading" /\ n_pc = "reading"
    /\ s_thinking /\ n_thinking
    /\ Markers(Fragments(s_chunks)) = << <<"<think>">> >>
    /\ Markers(n_content_parts) = << <<"<think>">> >>

(***************************************************************************)
(* C17.  Each request makes at most one session-creation call and at most  *)
(* one upstream streaming call, the creation first.  If the creation fails *)
(* (a status other than 200, or a payload without success) the request     *)
(* ends with status 500: the streaming call is never made, no chunk is     *)
(* emitted, and the creation is not tried again.                           *)
(***************************************************************************)
CreateFailed ==
    /\ create_response # NoCreate
    /\ create_response.status_code # 200 \/ ~create_response.success

CallOrders == {<<>>, <<"create">>, <<"create", "chat">>}

C17_OneCallEachNoRetry ==
    /\ s_calls \in CallOrders
    /\ n_calls \in CallOrders
    /\ CreateFailed =>
           /\ s_pc = "http500" /\ n_pc = "http500"
           /\ n_response = ErrorResponse(500)
           /\ s_calls = <<"create">> /\ n_calls = <<"create">>
           /\ upstream_state = "idle" /\ upstream_status = 0
           /\ s_chunks = <<>>
           /\ s_read = 0 /\ n_read = 0

\* the creation was answered 200 with an unsuccessful payload, and both
\* requests have ended with status 500 after that one call
C17_Witness ==
    /\ create_response = [status_code |-> 200, success |-> FALSE]
    /\ s_pc = "http500" /\ n_pc = "http500"
    /\ s_calls = <<"create">> /\ n_calls = <<"create">>

(***************************************************************************)
(* truncate_messages on its own: any message list, any budget.             *)
(***************************************************************************)
InitTrunc ==
    /\ messages \in MessageLists
    /\ max_chars \in 0..MaxBudget
    /\ truncated = <<>>
    /\ t_pc = "call"
    /\ requested = default_model /\ model = default_model
    /\ upstream_status = 0 /\ upstream_state = "idle" /\ line = NoLine
    /\ s_pc = "received" /\ n_pc = "received"
    /\ s_thinking = FALSE /\ n_thinking = FALSE
    /\ s_content_parts = <<>> /\ n_content_parts = <<>>
    /\ s_card_content = None /\ n_card_content = None
    /\ s_chunks = <<>> /\ n_response = NoResponse
    /\ s_read = 0 /\ n_read = 0
    /\ create_response = NoCreate
    /\ s_calls = <<>> /\ n_calls = <<>>
    /\ c_messages = <<>> /\ question = <<>> /\ c_pc = "idle"
    /\ NoUserAgents

Truncate ==
    /\ t_pc = "call"
    /\ truncated' = truncate_messages(messages, max_chars)
    /\ t_pc' = "returned"
    /\ UNCHANGED <<messages, max_chars>>
    /\ UNCHANGED <<rvars, cvars, uvars>>

NextTrunc == Truncate

SpecTrunc == InitTrunc /\ [][NextTrunc]_vars

\* the positions of the input's user/assistant messages, of its other
\* messages, and character counts, stated without the model's operators
TurnSet == {i \in 1..Len(messages) : messages[i].role \in {"user", "assistant"}}
OtherSet == (1..Len(messages)) \ TurnSet
RECURSIVE SetChars(_)
SetChars(S) ==
    IF S = {} THEN 0
    ELSE LET i == CHOOSE i \in S : TRUE IN Len(messages[i].content) + SetChars(S \ {i})
RECURSIVE SeqChars(_)
SeqChars(q) == IF q = <<>> THEN 0 ELSE Len(messages[Head(q)].content) + SeqChars(Tail(q))
\* the elements of a set of positions, ascending
RECURSIVE Ascending(_)
Ascending(S) ==
    IF S = {} THEN <<>>
    ELSE LET lo == CHOOSE i \in S : \A j \in S : i <= j IN <<lo>> \o Ascending(S \ {lo})
\* the returned positions that are user/assistant messages, in returned order
ReturnedTurns == SelectSeq(truncated, LAMBDA i : i \in TurnSet)
ReturnedOthers == SelectSeq(truncated, LAMBDA i : i \in OtherSet)
Increasing(q) == \A i, j \in 1..Len(q) : i < j => q[i] < q[j]
OverBudget == SetChars(1..Len(messages)) > max_chars

(***************************************************************************)
(* C9.  Over budget, the returned list has at most budget characters       *)
(* unless the non-user/non-assistant messages alone exceed the budget (and *)
(* then exactly those are returned), and the returned user/assistant       *)
(* messages are a contiguous trailing suffix of the input's, in order.     *)
(***************************************************************************)
C9_WithinBudgetSuffix ==
    (t_pc = "returned" /\ OverBudget)
    => /\ IF SetChars(OtherSet) > max_chars
          THEN truncated = Ascending(OtherSet)
          ELSE SeqChars(truncated) <= max_chars
       /\ \E k \in 0..Cardinality(TurnSet) :
              ReturnedTurns = SubSeq(Ascending(TurnSet), k + 1, Cardinality(TurnSet))

\* a real truncation: some turn is kept, an older one is dropped
C9_Witness ==
    /\ t_pc = "returned" /\ OverBudget
    /\ ReturnedTurns # <<>>
    /\ Len(ReturnedTurns) < Cardinality(TurnSet)
    /\ ReturnedOthers # <<>>

(***************************************************************************)
(* C10, as claimed.  The returned list is a subsequence of the input: any  *)
(* two returned messages, whatever their roles, are in the order they have *)
(* in the input.                                                           *)
(***************************************************************************)
C10_OriginalOrder == (t_pc = "returned") => Increasing(truncated)

(***************************************************************************)
(* C10, amended.  An input within the budget is returned as it is.  Over   *)
(* budget, the returned list is the non-user/non-assistant messages in     *)
(* their original order followed by the retained user/assistant messages   *)
(* in their original order: two returned messages of the same class keep   *)
(* their relative order, and every non-user/non-assistant message comes    *)
(* before every retained user/assistant message, also one that follows it  *)
(* in the input.  No message is returned twice.                            *)
(***************************************************************************)
C10_OrderWithinClass ==
    (t_pc = "returned")
    => /\ \A i \in 1..Len(truncated) : truncated[i] \in 1..Len(messages)
       /\ \A i, j \in 1..Len(truncated) : i # j => truncated[i] # truncated[j]
       /\ IF OverBudget
          THEN /\ truncated = ReturnedOthers \o ReturnedTurns
               /\ ReturnedOthers = Ascending(OtherSet)
               /\ Increasing(ReturnedTurns)
          ELSE truncated = Ascending(1..Len(messages))

\* a system message that follows a retained turn in the input comes out first
C10_Witness ==
    /\ t_pc = "returned" /\ OverBudget
    /\ \E i, j \in 1..Len(truncated) :
           i < j /\ truncated[i] > truncated[j]
                 /\ truncated[i] \in OtherSet /\ truncated[j] \in TurnSet
    /\ Len(ReturnedTurns) < Cardinality(TurnSet)

(***************************************************************************)
(* C16.  Whenever the non-user/non-assistant messages take less than the   *)
(* budget and the input holds a user/assistant message, the newest         *)
(* user/assistant message of the input is among the returned ones.         *)
(***************************************************************************)
\* the position of the newest user/assistant message
NewestTurn == CHOOSE i \in TurnSet : \A j \in TurnSet : j <= i

C16_NewestTurnKept ==
    (t_pc = "returned" /\ TurnSet # {} /\ SetChars(OtherSet) < max_chars)
    => \E i \in 1..Len(truncated) : truncated[i] = NewestTurn

\* what does hold: over budget, the newest user/assistant message is kept
\* exactly when it fits in what the other messages leave of the budget
NewestTurnKeptIffItFits ==
    (t_pc = "returned" /\ TurnSet # {} /\ OverBudget /\ SetChars(OtherSet) < max_chars)
    => ((\E i \in 1..Len(truncated) : truncated[i] = NewestTurn)
        <=> Len(messages[NewestTurn].content) <= max_chars - SetChars(OtherSet))

(***************************************************************************)
(* concatenate_messages on its own: any list of messages.                  *)
(***************************************************************************)
InitConcat ==
    /\ c_messages \in QuestionLists
    /\ question = <<>>
    /\ c_pc = "call"
    /\ NoUserAgents
    /\ messages = <<>> /\ max_chars = 0 /\ truncated = <<>> /\ t_pc = "idle"
    /\ requested = default_model /\ model = default_model
    /\ upstream_status = 0 /\ upstream_state = "idle" /\ line = NoLine
    /\ s_pc = "received" /\ n_pc = "received"
    /\ s_thinking = FALSE /\ n_thinking = FALSE
    /\ s_content_parts = <<>> /\ n_content_parts = <<>>
    /\ s_card_content = None /\ n_card_content = None
    /\ s_chunks = <<>> /\ n_response = NoResponse
    /\ s_read = 0 /\ n_read = 0
    /\ create_response = NoCreate
    /\ s_calls = <<>> /\ n_calls = <<>>

Concatenate ==
    /\ c_pc = "call"
    /\ question' = concatenate_messages(c_messages)
    /\ c_pc' = "returned"
    /\ UNCHANGED c_messages
    /\ UNCHANGED <<rvars, tvars, uvars>>

NextConcat == Concatenate

SpecConcat == InitConcat /\ [][NextConcat]_vars

\* the content of message i without its think spans, trimmed
Remaining(i) == strip(strip_think(c_messages[i].content))
\* the messages that survive, and the line the claim gives each
Survivors == {i \in 1..Len(c_messages) : Remaining(i) # <<>>}
LineOf(i) == <<capitalize(c_messages[i].role), ": ">> \o Remaining(i)
\* the lines of a text: its pieces between newline tokens
RECURSIVE SplitLines(_, _)
SplitLines(text, current) ==
    IF text = <<>> THEN <<current>>
    ELSE IF Head(text) = "\n" THEN <<current>> \o SplitLines(Tail(text), <<>>)
    ELSE SplitLines(Tail(text), Append(current, Head(text)))
OutputLines(text) == IF text = <<>> THEN <<>> ELSE SplitLines(text, <<>>)
\* the newline tokens inside a text
Newlines(text) == Cardinality({k \in 1..Len(text) : text[k] = "\n"})
RECURSIVE SumNewlines(_)
SumNewlines(S) ==
    IF S = {} THEN 0
    ELSE LET i == CHOOSE i \in S : TRUE IN Newlines(Remaining(i)) + SumNewlines(S \ {i})
\* the lines of the given messages, in the order given, separated by newlines
RECURSIVE Joined(_)
Joined(q) ==
    IF q = <<>> THEN <<>>
    ELSE IF Len(q) = 1 THEN LineOf(q[1])
    ELSE LineOf(q[1]) \o <<"\n">> \o Joined(Tail(q))

(***************************************************************************)
(* C11, as claimed.  The lines of the returned string are, in input order, *)
(* exactly one line "<Role capitalized>: <content>" for each message whose *)
(* content is non-empty once its think spans are removed and it is         *)
(* trimmed; the number of output lines equals the number of such messages. *)
(***************************************************************************)
C11_OneLinePerSurvivor ==
    (c_pc = "returned")
    => /\ Len(OutputLines(question)) = Cardinality(Survivors)
       /\ \A k \in 1..Cardinality(Survivors) :
              OutputLines(question)[k] = LineOf(Ascending(Survivors)[k])

(***************************************************************************)
(* C11, amended.  The returned string is, in input order, one entry        *)
(* "<Role capitalized>: <content>" for each message whose content is       *)
(* non-empty once its think spans are removed and it is trimmed, the       *)
(* entries separated by one newline; a message whose content becomes empty *)
(* contributes nothing.  An entry keeps the newlines inside its content,   *)
(* so the number of lines of the string is the number of surviving         *)
(* messages plus the number of newlines inside their remaining contents.   *)
(***************************************************************************)
C11_OneEntryPerSurvivor ==
    (c_pc = "returned")
    => /\ question = Joined(Ascending(Survivors))
       /\ Len(OutputLines(question)) = Cardinality(Survivors) + SumNewlines(Survivors)

\* a message that becomes empty sits between two that survive, and one
\* surviving content holds a newline
C11_Witness ==
    /\ c_pc = "returned"
    /\ \E i, j, k \in 1..Len(c_messages) :
           /\ i < j /\ j < k
           /\ i \in Survivors /\ k \in Survivors
           /\ j \notin Survivors /\ c_messages[j].content # <<>>
    /\ SumNewlines(Survivors) > 0

(***************************************************************************)
(* The user-agent cache under concurrently handled requests.  Each client  *)
(* is one request in flight: chat_completions generates its device         *)
(* identifier (line 418), create_conversation builds its headers (line     *)
(* 168), prepare_request_payload builds the headers of the streaming call  *)
(* (line 333).  The handlers are coroutines of one event loop and          *)
(* get_user_agent holds no await, so a call of it is one step; the awaits  *)
(* between the steps let the other requests run.                           *)
(***************************************************************************)
InitUA ==
    /\ RANDOM_UA \in BOOLEAN
    /\ device_ua_map = [d \in DeviceIds |-> NoUA]
    /\ u_pc = [p \in Clients |-> "idle"]
    /\ device_id = [p \in Clients |-> NoDevice]
    /\ ua_create = [p \in Clients |-> NoUA]
    /\ ua_chat = [p \in Clients |-> NoUA]
    /\ received = 0
    /\ ua_returned = [d \in DeviceIds |-> {}]
    /\ c_messages = <<>> /\ question = <<>> /\ c_pc = "idle"
    /\ messages = <<>> /\ max_chars = 0 /\ truncated = <<>> /\ t_pc = "idle"
    /\ requested = default_model /\ model = default_model
    /\ upstream_status = 0 /\ upstream_state = "idle" /\ line = NoLine
    /\ s_pc = "received" /\ n_pc = "received"
    /\ s_thinking = FALSE /\ n_thinking = FALSE
    /\ s_content_parts = <<>> /\ n_content_parts = <<>>
    /\ s_card_content = None /\ n_card_content = None
    /\ s_chunks = <<>> /\ n_response = NoResponse
    /\ s_read = 0 /\ n_read = 0
    /\ create_response = NoCreate
    /\ s_calls = <<>> /\ n_calls = <<>>

\* lines 412-418: a request arrives and gets its device identifier
Receive(p, d) ==
    /\ u_pc[p] = "idle"
    /\ received < MaxRequests
    /\ received' = received + 1
    /\ device_id' = [device_id EXCEPT ![p] = d]
    /\ u_pc' = [u_pc EXCEPT ![p] = "create"]
    /\ UNCHANGED <<RANDOM_UA, device_ua_map, ua_create, ua_chat, ua_returned>>
    /\ UNCHANGED <<rvars, tvars, cvars>>

\* lines 161-188: the headers of the session-creation call, and its outcome
CreateConversation(p, random, success) ==
    /\ u_pc[p] = "create"
    /\ \E r \in {get_user_agent(RANDOM_UA, device_ua_map, device_id[p], random)} :
          /\ device_ua_map' = r.map
          /\ ua_create' = [ua_create EXCEPT ![p] = IF success THEN r.ua ELSE NoUA]
          /\ ua_returned' = [ua_returned EXCEPT ![device_id[p]] = @ \cup {r.ua}]
    /\ u_pc' = [u_pc EXCEPT ![p] = IF success THEN "prepare" ELSE "idle"]
    /\ device_id' = [device_id EXCEPT ![p] = IF success THEN @ ELSE NoDevice]
    /\ UNCHANGED <<RANDOM_UA, ua_chat, received>>
    /\ UNCHANGED <<rvars, tvars, cvars>>

\* lines 330-338: the headers of the streaming call
PrepareRequestPayload(p, random) ==
    /\ u_pc[p] = "prepare"
    /\ \E r \in {get_user_agent(RANDOM_UA, device_ua_map, device_id[p], random)} :
          /\ device_ua_map' = r.map
          /\ ua_chat' = [ua_chat EXCEPT ![p] = r.ua]
          /\ ua_returned' = [ua_returned EXCEPT ![device_id[p]] = @ \cup {r.ua}]
    /\ u_pc' = [u_pc EXCEPT ![p] = "sent"]
    /\ UNCHANGED <<RANDOM_UA, device_id, ua_create, received>>
    /\ UNCHANGED <<rvars, tvars, cvars>>

\* the request is answered and its locals are gone; device_ua_map stays
Respond(p) ==
    /\ u_pc[p] = "sent"
    /\ u_pc' = [u_pc EXCEPT ![p] = "idle"]
    /\ device_id' = [device_id EXCEPT ![p] = NoDevice]
    /\ ua_create' = [ua_create EXCEPT ![p] = NoUA]
    /\ ua_chat' = [ua_chat EXCEPT ![p] = NoUA]
    /\ UNCHANGED <<RANDOM_UA, device_ua_map, received, ua_returned>>
    /\ UNCHANGED <<rvars, tvars, cvars>>

NextUA ==
    \/ \E p \in Clients, d \in DeviceIds : Receive(p, d)
    \/ \E p \in Clients, random \in UserAgents, success \in BOOLEAN :
           CreateConversation(p, random, success)
    \/ \E p \in Clients, random \in UserAgents : PrepareRequestPayload(p, random)
    \/ \E p \in Clients : Respond(p)

SpecUA == InitUA /\ [][NextUA]_vars

\* the keys of device_ua_map
CacheKeys == {d \in DeviceIds : InMap(device_ua_map, d)}

(***************************************************************************)
(* C18.  Under any interleaving of the requests in flight, all calls of    *)
(* get_user_agent with one device identifier return the same string, so    *)
(* the session-creation call and the streaming call of a request carry the *)
(* same User-Agent; and no step, of this or of another request, changes or *)
(* removes a value stored in device_ua_map.                                *)
(***************************************************************************)
C18_Always ==
    /\ \A d \in DeviceIds : Cardinality(ua_returned[d]) <= 1
    /\ \A p \in Clients : u_pc[p] = "sent" => ua_create[p] = ua_chat[p]
    /\ \A d \in CacheKeys : ua_returned[d] = {device_ua_map[d]}

C18_Step == \A d \in CacheKeys : device_ua_map'[d] = device_ua_map[d]

C18_SameUserAgent == []C18_Always /\ [][C18_Step]_vars

\* two requests in flight with different identifiers and different random
\* user agents, both past their streaming call
C18_Witness ==
    /\ RANDOM_UA
    /\ \E p, q \in Clients :
           /\ u_pc[p] = "sent" /\ u_pc[q] = "sent"
           /\ device_id[p] # device_id[q]
           /\ ua_chat[p] # ua_chat[q]
           /\ ua_create[p] = ua_chat[p] /\ ua_create[q] = ua_chat[q]

(***************************************************************************)
(* C19.  The cache is bounded: however many requests have been handled,    *)
(* device_ua_map never holds more than a fixed number of entries.          *)
(***************************************************************************)
C19_CacheBounded == Cardinality(CacheKeys) <= CacheBound

\* what does hold: no step removes an entry, and with RANDOM_UA set every
\* identifier that reached get_user_agent has one
CacheNeverShrinks ==
    [](RANDOM_UA => CacheKeys = {d \in DeviceIds : ua_returned[d] # {}})
    /\ [][CacheKeys \subseteq {d \in DeviceIds : InMap(device_ua_map', d)}]_vars

====
